---- MODULE Spec2Model ----
(***************************************************************************)
(* LemLib-FS: the index-backed virtual file system of src/main.cpp.        *)
(* Strings are sequences of one-character strings, so that the path        *)
(* normalisation, the index record format and its parsing, and the        *)
(* line-oriented sector I/O are computed the way the code computes them.   *)
(* index.txt is only ever written a line at a time (<< std::endl) and read *)
(* a line at a time (std::getline), and no path used here holds a line     *)
(* break, so it is kept as the sequence of its lines.                      *)
(***************************************************************************)
EXTENDS Integers, Sequences, FiniteSets, TLC

VARIABLES indexFile,   \* content of index.txt, the sequence of its lines
          sectors,     \* the sector files: file name |-> content
          lastOp       \* the last call made and how it ended

vars == <<indexFile, sectors, lastOp>>

----------------------------------------------------------------------------
(* Bounds and inputs *)

\* path arguments as the caller passes them (raw, not yet normalised)
InputPaths == { <<"a">>, <<"/", "b">>, <<"/", "a", "/", "b">> }

\* how many of the texts of DataList the calls are made with
NumData == 2

\* data arguments: the empty text, one line, one line with its line break,
\* two lines
DataList == << <<>>, <<"x">>, <<"x", "\n">>, <<"x", "\n", "x">> >>

InputData == { DataList[i] : i \in 1..NumData }

----------------------------------------------------------------------------
(* String helpers *)

Digits == <<"0", "1", "2", "3", "4", "5", "6", "7", "8", "9">>

RECURSIVE to_string(_)
to_string(value) ==
    IF value < 10 THEN << Digits[value + 1] >>
    ELSE Append(to_string(value \div 10), Digits[(value % 10) + 1])

\* std::string::find("/") in its place: the position of the first "/"
find_first_of(s, k) ==
    IF \E i \in 1..Len(s) : s[i] = "/"
    THEN CHOOSE i \in 1..Len(s) : s[i] = "/" /\ \A h \in 1..(i - 1) : s[h] # "/"
    ELSE 0

\* std::string::find_last_of("/"): 1-based position of the last "/", 0 for npos
RECURSIVE find_last_of(_, _)
find_last_of(s, k) ==
    IF k = 0 THEN 0
    ELSE IF s[k] = "/" THEN k
    ELSE find_last_of(s, k - 1)

\* the lines a std::getline loop extracts from a stream holding s
RECURSIVE getlines(_, _, _)
getlines(s, i, cur) ==
    IF i > Len(s) THEN (IF cur = <<>> THEN <<>> ELSE << cur >>)
    ELSE IF s[i] = "\n" THEN << cur >> \o getlines(s, i + 1, <<>>)
    ELSE getlines(s, i + 1, Append(cur, s[i]))

\* a normalisation that leaves the path as it is
Normalize_Unchanged(path) == path

\* if the path does not start with a slash, add one
Normalize(path) ==
    IF Len(path) > 0 /\ path[1] = "/" THEN path ELSE << "/" >> \o path

----------------------------------------------------------------------------
(* The index *)

\* one line of index.txt split at its last "/"
ParseLine(line) ==
    LET k == find_last_of(line, Len(line))
    IN  IF k = 0 THEN [name |-> line, sector |-> line]
        ELSE [name |-> SubSeq(line, 1, k - 1), sector |-> SubSeq(line, k + 1, Len(line))]

\* for (std::string line; std::getline(indexFile, line);) index.push_back(...)
ParseIndex(lines) == [i \in 1..Len(lines) |-> ParseLine(lines[i])]

readFileIndex == ParseIndex(indexFile)

\* the line  name << "/" << sector  the code streams into index.txt
IndexRecord(name, sector) == name \o << "/" >> \o sector

\* a lookup that never finds the entry
fileExistsIn_NeverFound(index, filePath) == FALSE

fileExistsIn(index, filePath) == \E i \in 1..Len(index) : index[i].name = filePath

fileExists(path) == fileExistsIn(readFileIndex, Normalize(path))

\* sector of the first entry named filePath (the caller has checked it exists)
SectorOf(index, filePath) ==
    LET i == CHOOSE j \in 1..Len(index) :
                 /\ index[j].name = filePath
                 /\ \A h \in 1..(j - 1) : index[h].name # filePath
    IN  index[i].sector

\* getFileSector hands out file.sector.c_str() of a vector that is destroyed
\* on return: the pointer dangles.  Reading the freed memory yields the sector
\* itself, another sector string of the same vector, or a string no file can
\* be opened under (the empty string).  The result is the set of the values
\* the caller can read.
getFileSector(index, filePath) ==
    { SectorOf(index, filePath) }
        \cup { index[i].sector : i \in 1..Len(index) }
        \cup { <<>> }

\* a rewrite that leaves no entry out
RECURSIVE RewriteWithout_KeepsAll(_, _, _)
RewriteWithout_KeepsAll(index, filePath, i) ==
    IF i > Len(index) THEN <<>>
    ELSE << IndexRecord(index[i].name, index[i].sector) >>
         \o RewriteWithout_KeepsAll(index, filePath, i + 1)

\* a rewrite whose test is inverted: it keeps the entries named filePath
RECURSIVE RewriteWithout_Inverted(_, _, _)
RewriteWithout_Inverted(index, filePath, i) ==
    IF i > Len(index) THEN <<>>
    ELSE (IF index[i].name = filePath
             THEN << IndexRecord(index[i].name, index[i].sector) >>
             ELSE <<>>)
         \o RewriteWithout_Inverted(index, filePath, i + 1)

\* a rewrite that writes the kept records last to first
RECURSIVE RewriteWithout_Reversed(_, _, _)
RewriteWithout_Reversed(index, filePath, i) ==
    IF i > Len(index) THEN <<>>
    ELSE RewriteWithout_Reversed(index, filePath, i + 1)
         \o (IF index[i].name # filePath
                THEN << IndexRecord(index[i].name, index[i].sector) >>
                ELSE <<>>)

\* the index with every entry named filePath left out, as deleteFile rewrites it
RECURSIVE RewriteWithout(_, _, _)
RewriteWithout(index, filePath, i) ==
    IF i > Len(index) THEN <<>>
    ELSE (IF index[i].name # filePath
             THEN << IndexRecord(index[i].name, index[i].sector) >>
             ELSE <<>>)
         \o RewriteWithout(index, filePath, i + 1)

\* "Find the first empty sector": one pass over the index in file order
RECURSIVE FirstEmptySector(_, _, _)
FirstEmptySector(index, i, sector) ==
    IF i > Len(index) THEN sector
    ELSE FirstEmptySector(index, i + 1,
                          IF index[i].sector = to_string(sector) THEN sector + 1 ELSE sector)

\* a search that reports the last occurrence of t in s
find_Last(s, t) ==
    LET at == { i \in 1..(Len(s) - Len(t) + 1) : SubSeq(s, i, i + Len(t) - 1) = t }
    IN  IF at = {} THEN 0 ELSE CHOOSE i \in at : \A j \in at : j <= i

\* std::string::find(t): 1-based position of the first occurrence of t in s,
\* 0 for npos
find(s, t) ==
    LET at == { i \in 1..(Len(s) - Len(t) + 1) : SubSeq(s, i, i + Len(t) - 1) = t }
    IN  IF at = {} THEN 0 ELSE CHOOSE i \in at : \A j \in at : i <= j

\* the name listDirectory derives from one matching entry (lines 152-154)
ListedName(name, directory, recursive) ==
    LET rest == SubSeq(name, find(name, directory) + Len(directory), Len(name))
        slash == find(rest, << "/" >>)
    IN  IF slash # 0 /\ ~recursive
           THEN SubSeq(rest, 1, slash - 1) \o << "/" >>
           ELSE rest

\* the loop of listDirectory from entry i on, files being the names pushed so far
RECURSIVE ListFrom(_, _, _, _, _)
ListFrom(index, directory, recursive, i, files) ==
    IF i > Len(index) THEN files
    ELSE IF find(index[i].name, directory) = 0
         THEN ListFrom(index, directory, recursive, i + 1, files)
    ELSE LET name == ListedName(index[i].name, directory, recursive)
             found == \E k \in 1..Len(files) : files[k] = name
         IN  ListFrom(index, directory, recursive, i + 1,
                      IF found THEN files ELSE Append(files, name))

listDirectory(index, dir, recursive) ==
    ListFrom(index, Normalize(dir), recursive, 1, <<>>)

----------------------------------------------------------------------------
(* The sector files *)

CanOpenForWrite(name) == name # <<>>

CanOpenForRead(name) == name \in DOMAIN sectors

\* std::ofstream::open(name) followed by writing text: creates or truncates
WriteFile(files, name, text) ==
    IF CanOpenForWrite(name)
       THEN [n \in (DOMAIN files) \cup {name} |-> IF n = name THEN text ELSE files[n]]
       ELSE files

RECURSIVE JoinLines(_, _)
JoinLines(lines, i) ==
    IF i > Len(lines) THEN <<>>
    ELSE lines[i] \o << "\n" >> \o JoinLines(lines, i + 1)

\* while (std::getline(stream, line)) out << line << std::endl;
EachLineWithBreak(text) == JoinLines(getlines(text, 1, <<>>), 1)

----------------------------------------------------------------------------
(* The calls *)

\* lastOp records the call just made: its arguments, whether its path had an
\* entry when it was called, the exception it raised ("ok" for none), the
\* source line it left through, and what it returned.  secondDelete marks a
\* delete that directly follows a successful delete of the same path.
NoOp == [op |-> "init", path |-> <<>>, overwrite |-> FALSE, data |-> <<>>,
         existed |-> FALSE, result |-> "ok", exit |-> 77, ret |-> <<>>,
         mayReturn |-> {}, found |-> FALSE, secondDelete |-> FALSE,
         recursive |-> FALSE, list |-> <<>>]

Call(op, path, overwrite, data, existed, result, exit, ret) ==
    [op |-> op, path |-> path, overwrite |-> overwrite, data |-> data,
     existed |-> existed, result |-> result, exit |-> exit, ret |-> ret,
     mayReturn |-> {}, found |-> FALSE, secondDelete |-> FALSE,
     recursive |-> FALSE, list |-> <<>>]

Init ==
    /\ indexFile = <<>>
    /\ sectors = <<>>
    /\ lastOp = NoOp

\* deleteFile past its existence check (lines 219-232): the sector is opened
\* under the name the dangling pointer reads as, then index.txt is rewritten
DeleteEffect(index, files, filePath, name) ==
    [text |-> RewriteWithout(index, filePath, 1),
     files |-> WriteFile(files, name, <<>>)]

\* a create that forgets to append its record
AppendEntry_Nothing(text, filePath) == text

\* createFile from the allocation on (lines 263-271): the index is read again
\* and the record is appended to index.txt
AppendEntry(text, filePath) ==
    Append(text, IndexRecord(filePath, to_string(FirstEmptySector(ParseIndex(text), 1, 0))))

\* In the calls below filePath, index and after are the code's locals, bound
\* once to their values.

DeleteFile(path) ==
    \E filePath \in { Normalize(path) }, index \in { readFileIndex } :
    IF ~fileExistsIn(index, filePath)
    THEN /\ lastOp' = [Call("delete", path, FALSE, <<>>, FALSE, "FILE_NOT_FOUND", 218, <<>>)
                         EXCEPT !.secondDelete = /\ lastOp.op = "delete"
                                                 /\ lastOp.result = "ok"
                                                 /\ Normalize(lastOp.path) = filePath]
         /\ UNCHANGED <<indexFile, sectors>>
    ELSE \E name \in getFileSector(index, filePath) :
            \E after \in { DeleteEffect(index, sectors, filePath, name) } :
            /\ indexFile' = after.text
            /\ sectors' = after.files
            /\ lastOp' = Call("delete", path, FALSE, <<>>, TRUE, "ok", 233, <<>>)

\* index.txt stays open for append (line 254) across deleteFile's rewrite, so
\* the new record lands at the end of the rewritten file.
CreateFile(path, overwrite) ==
    \E filePath \in { Normalize(path) }, index \in { readFileIndex } :
    \E exists \in { fileExistsIn(index, filePath) } :
    IF exists /\ ~overwrite
    THEN /\ lastOp' = Call("create", path, overwrite, <<>>, TRUE, "FILE_ALREADY_EXISTS", 261, <<>>)
         /\ UNCHANGED <<indexFile, sectors>>
    ELSE \E name \in (IF exists THEN getFileSector(index, filePath) ELSE { <<>> }) :
            \E after \in { IF exists
                            THEN DeleteEffect(index, sectors, filePath, name)
                            ELSE [text |-> indexFile, files |-> sectors] } :
            /\ indexFile' = AppendEntry(after.text, filePath)
            /\ sectors' = after.files
            \* sectorFile is tested with is_open() before it is opened
            /\ lastOp' = Call("create", path, overwrite, <<>>, exists, "CANNOT_OPEN_FILE", 275, <<>>)

Write(path, data) ==
    \E filePath \in { Normalize(path) }, index \in { readFileIndex } :
    IF ~fileExistsIn(index, filePath)
    THEN \* createFile(filePath) throws, and write passes the exception on
         /\ indexFile' = AppendEntry(indexFile, filePath)
         /\ UNCHANGED sectors
         /\ lastOp' = Call("write", path, FALSE, data, FALSE, "CANNOT_OPEN_FILE", 275, <<>>)
    ELSE \E name \in getFileSector(index, filePath) :
            IF ~CanOpenForWrite(name)
            THEN /\ lastOp' = Call("write", path, FALSE, data, TRUE, "CANNOT_OPEN_FILE", 306, <<>>)
                 /\ UNCHANGED <<indexFile, sectors>>
            ELSE /\ sectors' = WriteFile(sectors, name, EachLineWithBreak(data))
                 \* the returned string is built from a second dangling pointer:
                 \* mayReturn holds every value it can have
                 /\ lastOp' = [Call("write", path, FALSE, data, TRUE, "ok", 312, <<>>)
                                  EXCEPT !.mayReturn = getFileSector(index, filePath)]
                 /\ UNCHANGED indexFile

\* a read that opens the sector with an output stream, which creates or
\* empties it
Read_OpensForWrite(path) ==
    \E filePath \in { Normalize(path) }, index \in { readFileIndex } :
    /\ UNCHANGED indexFile
    /\ IF ~fileExistsIn(index, filePath)
       THEN /\ lastOp' = Call("read", path, FALSE, <<>>, FALSE, "FILE_NOT_FOUND", 336, <<>>)
            /\ UNCHANGED sectors
       ELSE \E name \in getFileSector(index, filePath) :
               /\ sectors' = WriteFile(sectors, name, <<>>)
               /\ lastOp' = Call("read", path, FALSE, <<>>, TRUE, "ok", 348, <<>>)

Read(path) ==
    \E filePath \in { Normalize(path) }, index \in { readFileIndex } :
    /\ UNCHANGED <<indexFile, sectors>>
    /\ IF ~fileExistsIn(index, filePath)
       THEN lastOp' = Call("read", path, FALSE, <<>>, FALSE, "FILE_NOT_FOUND", 336, <<>>)
       ELSE \E name \in getFileSector(index, filePath) :
               IF ~CanOpenForRead(name)
               THEN lastOp' = Call("read", path, FALSE, <<>>, TRUE, "CANNOT_OPEN_FILE", 341, <<>>)
               ELSE lastOp' = Call("read", path, FALSE, <<>>, TRUE, "ok", 348,
                                   EachLineWithBreak(sectors[name]))

Exists(path) ==
    /\ UNCHANGED <<indexFile, sectors>>
    /\ lastOp' = [Call("exists", path, FALSE, <<>>, fileExists(path), "ok", 196, <<>>)
                     EXCEPT !.found = fileExists(path)]

\* getFileSector as the caller sees it: a dangling pointer (mayReturn holds
\* every value it can read as) or, for a path with no entry, NULL
GetSector(path) ==
    \E filePath \in { Normalize(path) }, index \in { readFileIndex } :
    /\ UNCHANGED <<indexFile, sectors>>
    /\ IF fileExistsIn(index, filePath)
       THEN lastOp' = [Call("sector", path, FALSE, <<>>, TRUE, "ok", 119, <<>>)
                         EXCEPT !.found = TRUE,
                                !.mayReturn = getFileSector(index, filePath)]
       ELSE lastOp' = Call("sector", path, FALSE, <<>>, FALSE, "ok", 122, <<>>)

\* filePath.c_str()[strlen(filePath.c_str()) - 1] == '/'
IsDirectory(path) ==
    \E filePath \in { Normalize(path) } :
    /\ UNCHANGED <<indexFile, sectors>>
    /\ lastOp' = [Call("isDirectory", path, FALSE, <<>>, FALSE, "ok", 371, <<>>)
                     EXCEPT !.found = (filePath[Len(filePath)] = "/")]

Next ==
    \/ \E path \in InputPaths, overwrite \in BOOLEAN : CreateFile(path, overwrite)
    \/ \E path \in InputPaths : DeleteFile(path)
    \/ \E path \in InputPaths, data \in InputData : Write(path, data)
    \/ \E path \in InputPaths : Read(path)
    \/ \E path \in InputPaths : Exists(path)

Spec == Init /\ [][Next]_vars

----------------------------------------------------------------------------
(* Listing, over indexes of up to MaxListEntries files created in any order *)

MaxListEntries == 3

ListPaths == { <<"/", "a", "/", "b">>, <<"/", "a", "/", "c">>,
               <<"/", "a", "/", "d", "/", "e">>, <<"/", "x", "a", "/", "b">> }

ListDirs == { <<"/", "a">>, <<"a">>, <<"/", "a", "/">>, <<"/", "d">>,
              <<"/", "b">>, <<"/", "q">>, <<"/">> }

\* the sequences of at most n different paths
RECURSIVE PathSeqs(_)
PathSeqs(n) ==
    IF n = 0 THEN { <<>> }
    ELSE LET shorter == PathSeqs(n - 1)
         IN  shorter \cup
             { Append(q, p) : q \in { r \in shorter : Len(r) = n - 1 },
                              p \in ListPaths }

NoRepeat(q) == \A i, j \in 1..Len(q) : i # j => q[i] # q[j]

\* index.txt after creating the paths of q in turn on an empty index
RECURSIVE CreatedInTurn(_, _)
CreatedInTurn(q, i) ==
    IF i = 0 THEN <<>> ELSE AppendEntry(CreatedInTurn(q, i - 1), q[i])

InitList ==
    /\ \E q \in { r \in PathSeqs(MaxListEntries) : NoRepeat(r) } :
          indexFile = CreatedInTurn(q, Len(q))
    /\ sectors = <<>>
    /\ lastOp = NoOp

List(dir, recursive) ==
    /\ UNCHANGED <<indexFile, sectors>>
    /\ lastOp' = [Call("list", dir, FALSE, <<>>, FALSE, "ok", 165, <<>>)
                     EXCEPT !.recursive = recursive,
                            !.list = listDirectory(readFileIndex, dir, recursive)]

NextList == \E dir \in ListDirs, recursive \in BOOLEAN : List(dir, recursive)

SpecList == InitList /\ [][NextList]_vars

----------------------------------------------------------------------------
(* Every call of the interface, on two files, paths given with and without *)
(* the leading "/"                                                         *)

CallPaths == { <<"x">>, <<"/", "x">>, <<"/", "y">> }

NextCalls ==
    \/ \E path \in CallPaths, overwrite \in BOOLEAN : CreateFile(path, overwrite)
    \/ \E path \in CallPaths : DeleteFile(path)
    \/ \E path \in CallPaths, data \in InputData : Write(path, data)
    \/ \E path \in CallPaths : Read(path)
    \/ \E path \in CallPaths : Exists(path)
    \/ \E path \in CallPaths : GetSector(path)
    \/ \E path \in CallPaths, recursive \in BOOLEAN : List(path, recursive)
    \/ \E path \in CallPaths : IsDirectory(path)

SpecCalls == Init /\ [][NextCalls]_vars

----------------------------------------------------------------------------
(* Storage failures: index.txt cannot be opened *)

\* deleteFile when indexFile.open("index.txt") fails (line 228): the sector
\* has been emptied (lines 220-223) and index.txt is as it was
DeleteFileIndexNotOpened(path) ==
    \E filePath \in { Normalize(path) }, index \in { readFileIndex } :
    IF ~fileExistsIn(index, filePath)
    THEN /\ lastOp' = Call("delete", path, FALSE, <<>>, FALSE, "FILE_NOT_FOUND", 218, <<>>)
         /\ UNCHANGED <<indexFile, sectors>>
    ELSE \E name \in getFileSector(index, filePath) :
            /\ sectors' = WriteFile(sectors, name, <<>>)
            /\ UNCHANGED indexFile
            /\ lastOp' = Call("delete", path, FALSE, <<>>, TRUE, "CANNOT_OPEN_FILE", 228, <<>>)

\* initVFS when the program is started again on the index.txt it left.
\* canRead and canWrite are the outcomes of the two open calls; existed
\* records that index.txt was there.
InitVFS(canRead, canWrite) ==
    /\ UNCHANGED sectors
    /\ IF canRead
       THEN /\ UNCHANGED indexFile
            /\ lastOp' = Call("initVFS", <<>>, FALSE, <<>>, TRUE, "ok", 77, <<>>)
       ELSE IF canWrite
       THEN \* std::ofstream::open truncates
            /\ indexFile' = <<>>
            /\ lastOp' = Call("initVFS", <<>>, FALSE, <<>>, TRUE, "ok", 77, <<>>)
       ELSE /\ UNCHANGED indexFile
            /\ lastOp' = Call("initVFS", <<>>, FALSE, <<>>, TRUE, "VFS_INIT_FAILED", 74, <<>>)

NextFault ==
    \/ \E path \in CallPaths, overwrite \in BOOLEAN : CreateFile(path, overwrite)
    \/ \E path \in CallPaths : DeleteFile(path)
    \/ \E path \in CallPaths, data \in InputData : Write(path, data)
    \/ \E path \in CallPaths : Read(path)
    \/ \E path \in CallPaths : DeleteFileIndexNotOpened(path)
    \/ \E canRead \in BOOLEAN, canWrite \in BOOLEAN : InitVFS(canRead, canWrite)

SpecFault == Init /\ [][NextFault]_vars

----------------------------------------------------------------------------
(* The records of index.txt: written by createFile and deleteFile, read back *)
(* by readFileIndex                                                         *)

MaxPathLen == 3

MaxSlot == 10

MaxRecords == 1

\* the paths createFile can be given once normalised: "/" first, then any mix
\* of separators and letters ("/" itself, "//", "/a/", "//a", ...)
RecordPaths ==
    { p \in UNION { [1..n -> { "/", "a" }] : n \in 1..MaxPathLen } : p[1] = "/" }

\* indexFile << filePath << "/" << std::to_string(sector) << std::endl (line 270);
\* list keeps the pairs that were written
StoreRecord(filePath, sector) ==
    /\ Len(indexFile) < MaxRecords
    /\ indexFile' = Append(indexFile, IndexRecord(filePath, to_string(sector)))
    /\ UNCHANGED sectors
    /\ lastOp' = [Call("record", filePath, FALSE, <<>>, FALSE, "ok", 270, to_string(sector))
                     EXCEPT !.list = Append(lastOp.list,
                                            [name |-> filePath, sector |-> to_string(sector)])]

\* deleteFile's rewrite (lines 225-232): the index is read and every record
\* not named filePath is written again
RewriteIndex(filePath) ==
    /\ indexFile' = RewriteWithout(readFileIndex, filePath, 1)
    /\ UNCHANGED sectors
    /\ lastOp' = [Call("rewrite", filePath, FALSE, <<>>, FALSE, "ok", 232, <<>>)
                     EXCEPT !.list = SelectSeq(lastOp.list, LAMBDA e : e.name # filePath)]

NextRecord ==
    \/ \E filePath \in RecordPaths, sector \in 0..MaxSlot : StoreRecord(filePath, sector)
    \/ \E filePath \in RecordPaths : RewriteIndex(filePath)

SpecRecord == Init /\ [][NextRecord]_vars

----------------------------------------------------------------------------
(* Properties *)

Entries == readFileIndex

HasEntry(path) == \E i \in 1..Len(Entries) : Entries[i].name = Normalize(path)

SlotOf(path) ==
    Entries[CHOOSE i \in 1..Len(Entries) : Entries[i].name = Normalize(path)].sector

SlotsOf(index) == { index[i].sector : i \in 1..Len(index) }

\* the smallest non-negative integer whose decimal form is not in slots
SmallestFree(slots) ==
    CHOOSE k \in 0..Cardinality(slots) :
        /\ to_string(k) \notin slots
        /\ \A j \in 0..(k - 1) : to_string(j) \in slots

\* the last call was a createFile that appended an entry
CreateAdded == lastOp.op = "create" /\ lastOp.exit = 275

\* C1: no two entries of the index have the same slot.
C1_SlotsUnique ==
    \A i, j \in 1..Len(Entries) : i # j => Entries[i].sector # Entries[j].sector

\* C2: the slot a create gives its new entry is the smallest non-negative
\* integer whose decimal form is the slot of no entry of the index it was
\* added to.
C2_LowestFreeSlot ==
    CreateAdded =>
        LET n == Len(Entries)
        IN  Entries[n].sector = to_string(SmallestFree(SlotsOf(SubSeq(Entries, 1, n - 1))))

\* C3: the index holds at most one entry for each normalized path.
C3_OneEntryPerPath ==
    \A i, j \in 1..Len(Entries) : i # j => Entries[i].name # Entries[j].name

\* a create with overwrite on a path that had an entry, other entries present
C3_Witness ==
    /\ lastOp.op = "create" /\ lastOp.overwrite /\ lastOp.existed
    /\ HasEntry(lastOp.path)
    /\ Len(Entries) = 3

\* C4: a create on a path with no entry raises nothing and returns the slot
\* it allocated.
C4_CreateReturnsSlot ==
    (lastOp.op = "create" /\ ~lastOp.existed) =>
        /\ lastOp.result = "ok"
        /\ HasEntry(lastOp.path)
        /\ lastOp.ret = SlotOf(lastOp.path)

\* C5: no path exists at the start, a path comes to exist only by a create or
\* a write of that path, and after every create or write its path exists.
C5_ExistsAfterCreateOrWrite ==
    /\ \A p \in InputPaths : ~HasEntry(p)
    /\ [][\/ UNCHANGED indexFile
          \/ \A p \in InputPaths :
                (~HasEntry(p) /\ HasEntry(p)') =>
                    /\ lastOp'.op \in {"create", "write"}
                    /\ Normalize(lastOp'.path) = Normalize(p)]_vars
    /\ [](lastOp.op \in {"create", "write"} => HasEntry(lastOp.path))

\* a write has just brought a path into existence
C5_Witness ==
    /\ lastOp.op = "write" /\ ~lastOp.existed
    /\ HasEntry(lastOp.path)

NoLineBreak(text) == \A i \in 1..Len(text) : text[i] # "\n"

\* C6: a read that directly follows a write of the same path returns the
\* written text with one line break after each of its lines (the text and one
\* line break when it has no line break in it).
C6_WriteReadRoundTrip ==
    [][(/\ lastOp.op = "write"
        /\ lastOp'.op = "read"
        /\ Normalize(lastOp'.path) = Normalize(lastOp.path))
       => /\ lastOp'.result = "ok"
          /\ lastOp'.ret = IF NoLineBreak(lastOp.data)
                              THEN lastOp.data \o << "\n" >>
                              ELSE EachLineWithBreak(lastOp.data)]_vars

\* C7: a write never fails, and it returns the slot of its path's entry.
C7_WriteReturnsSlot ==
    lastOp.op = "write" =>
        /\ lastOp.result = "ok"
        /\ HasEntry(lastOp.path)
        /\ lastOp.mayReturn = { SlotOf(lastOp.path) }

\* C8: after a successful delete its path does not exist, and a delete of a
\* path that does not exist raises FILE_NOT_FOUND and changes neither the
\* index nor any sector.
C8_DeleteThenNotFound ==
    /\ [](lastOp.op = "delete" /\ lastOp.result = "ok" => ~HasEntry(lastOp.path))
    /\ [][(lastOp'.op = "delete" /\ ~HasEntry(lastOp'.path)) =>
            /\ lastOp'.result = "FILE_NOT_FOUND"
            /\ UNCHANGED <<indexFile, sectors>>]_vars

\* the second of two deletes of a path, other files and their content present
C8_Witness ==
    /\ lastOp.op = "delete" /\ lastOp.secondDelete
    /\ lastOp.result = "FILE_NOT_FOUND"
    /\ Len(Entries) > 0
    /\ \E n \in DOMAIN sectors : sectors[n] # <<>>

\* C9: a create without overwrite on a path that has an entry raises
\* FILE_ALREADY_EXISTS and changes neither the index nor any sector.
C9_CreateExistingFails ==
    [][(lastOp'.op = "create" /\ ~lastOp'.overwrite /\ HasEntry(lastOp'.path)) =>
         /\ lastOp'.result = "FILE_ALREADY_EXISTS"
         /\ UNCHANGED <<indexFile, sectors>>]_vars

\* a refused create of a path whose sector holds text
C9_Witness ==
    /\ lastOp.op = "create" /\ ~lastOp.overwrite
    /\ lastOp.result = "FILE_ALREADY_EXISTS"
    /\ SlotOf(lastOp.path) \in DOMAIN sectors
    /\ sectors[SlotOf(lastOp.path)] # <<>>
    /\ Len(Entries) > 1

\* C10: after a create that added an entry, the sector of that entry exists
\* and is empty.
C10_CreatedSectorEmpty ==
    CreateAdded =>
        /\ SlotOf(lastOp.path) \in DOMAIN sectors
        /\ sectors[SlotOf(lastOp.path)] = <<>>

\* the index holds /a/b, /a/c and /a/d/e, in that order
IndexABC ==
    [i \in 1..Len(Entries) |-> Entries[i].name]
        = << <<"/", "a", "/", "b">>, <<"/", "a", "/", "c">>, <<"/", "a", "/", "d", "/", "e">> >>

\* C11: with /a/b, /a/c, /a/d/e in the index in that order, listing "/a"
\* yields b, c, d/ and listing it recursively yields b, c, d/e.
C11_ListOfA ==
    (lastOp.op = "list" /\ lastOp.path = <<"/", "a">> /\ IndexABC) =>
        lastOp.list = IF lastOp.recursive
                         THEN << <<"b">>, <<"c">>, <<"d", "/", "e">> >>
                         ELSE << <<"b">>, <<"c">>, <<"d", "/">> >>

\* t occurs in s
Contains(s, t) == \E i \in 1..(Len(s) - Len(t) + 1) : SubSeq(s, i, i + Len(t) - 1) = t

\* what is left of s after the first occurrence of t
AfterFirst(s, t) ==
    LET i == CHOOSE k \in 1..(Len(s) - Len(t) + 1) :
                 /\ SubSeq(s, k, k + Len(t) - 1) = t
                 /\ \A h \in 1..(k - 1) : SubSeq(s, h, h + Len(t) - 1) # t
    IN  [k \in 1..(Len(s) - (i + Len(t) - 1)) |-> s[i + Len(t) - 1 + k]]

\* a remainder cut after its first segment, the separator kept
FirstSegment(r) ==
    LET cut == CHOOSE k \in 1..Len(r) : r[k] = "/" /\ \A h \in 1..(k - 1) : r[h] # "/"
    IN  [k \in 1..cut |-> r[k]]

Remainder(name, d, recursive) ==
    LET r == AfterFirst(name, d)
    IN  IF ~recursive /\ (\E k \in 1..Len(r) : r[k] = "/") THEN FirstSegment(r) ELSE r

\* the elements of the set of positions, in increasing order, mapped by f
RECURSIVE InOrder(_, _, _)
InOrder(positions, f, n) ==
    IF n = 0 THEN <<>>
    ELSE InOrder(positions, f, n - 1) \o (IF n \in positions THEN << f[n] >> ELSE <<>>)

\* the reference listing: the remainders of the entries that contain the
\* normalised dir, in index order, each remainder kept where it first occurs
ReferenceList(index, dir, recursive) ==
    LET d == IF dir # <<>> /\ Head(dir) = "/" THEN dir ELSE << "/" >> \o dir
        matches == { i \in 1..Len(index) : Contains(index[i].name, d) }
        rem == [i \in 1..Len(index) |->
                   IF i \in matches THEN Remainder(index[i].name, d, recursive) ELSE <<>>]
        first == { i \in matches : \A j \in matches : j < i => rem[j] # rem[i] }
    IN  InOrder(first, rem, Len(index))

SameCallWith(path, l, i, f) ==
    /\ \/ l.op = "create" /\ CreateFile(path, l.overwrite)
       \/ l.op = "delete" /\ DeleteFile(path)
       \/ l.op = "write" /\ Write(path, l.data)
       \/ l.op = "read" /\ Read(path)
       \/ l.op = "exists" /\ Exists(path)
       \/ l.op = "sector" /\ GetSector(path)
       \/ l.op = "list" /\ List(path, l.recursive)
       \/ l.op = "isDirectory" /\ IsDirectory(path)
    /\ indexFile' = i
    /\ sectors' = f
    /\ lastOp' = [l EXCEPT !.path = path]

WithSlash(x) == << "/" >> \o x

\* C12: whatever a call made with x (no leading separator) can do, the same
\* call made with "/" + x can do from the same state, and the other way
\* round: same exception, same return value, same index, same sectors; and
\* every entry's name begins with the separator.
C12_LeadingSlashOptional ==
    /\ [][\A x \in { p \in CallPaths : Head(p) # "/" } :
            \E l \in { lastOp' }, i \in { indexFile' }, f \in { sectors' } :
                /\ l.path = x => ENABLED SameCallWith(WithSlash(x), l, i, f)
                /\ l.path = WithSlash(x) => ENABLED SameCallWith(x, l, i, f)]_vars
    /\ [](\A k \in 1..Len(Entries) : Head(Entries[k].name) = "/")

\* create("x") has replaced the entry that create("/x") made
C12_Witness ==
    /\ lastOp.op = "create" /\ lastOp.path = <<"x">> /\ lastOp.existed
    /\ \E k \in 1..Len(Entries) : Entries[k].name = <<"/", "x">>
    /\ \A k \in 1..Len(Entries) : Entries[k].name # <<"x">>

ReadOnlyCalls == { "exists", "sector", "list", "isDirectory", "read" }

\* C13: exists, getFileSector, listDirectory, isDirectory and read, however
\* they end, change neither the index nor any sector.
C13_ReadOnlyCallsChangeNothing ==
    [][lastOp'.op \in ReadOnlyCalls => UNCHANGED <<indexFile, sectors>>]_vars

\* a read that failed on a path that has an entry, other text being stored
C13_Witness ==
    /\ lastOp.op = "read" /\ lastOp.result = "CANNOT_OPEN_FILE"
    /\ Len(Entries) = 2
    /\ \E n \in DOMAIN sectors : sectors[n] # <<>>

EntriesWithout(entries, name) == SelectSeq(entries, LAMBDA e : e.name # name)

\* C14: a delete that succeeds takes exactly the entry of its path out of the
\* index, every other entry keeping its name, its slot and its place among the
\* others; a write on a path that has an entry leaves the index as it was.
C14_DeleteAndWriteFrame ==
    [][\/ UNCHANGED indexFile
       \/ \E l \in { lastOp' }, before \in { Entries }, after \in { Entries' } :
            /\ (l.op = "delete" /\ l.result = "ok") =>
                   /\ after = EntriesWithout(before, Normalize(l.path))
                   /\ Len(after) = Len(before) - 1
            /\ ~(l.op = "write" /\ l.existed)]_vars

\* a delete has succeeded and left two entries behind
C14_Witness ==
    /\ lastOp.op = "delete" /\ lastOp.result = "ok"
    /\ Len(Entries) = 2
    /\ Entries[1].name # Entries[2].name

\* what read gives for the entry stored in sector: its text, or the failure to
\* open a sector file that was never made
TextIn(files, sector) ==
    IF sector \in DOMAIN files THEN << "ok", EachLineWithBreak(files[sector]) >>
    ELSE << "CANNOT_OPEN_FILE" >>

\* C15: a write, a delete or an overwriting create on a path p does not change
\* the text read gives for any other path that has an entry.
C15_ContentIsolation ==
    [][\/ UNCHANGED sectors
       \/ \E l \in { lastOp' }, before \in { Entries } :
            (l.op \in { "write", "delete" } \/ (l.op = "create" /\ l.overwrite)) =>
                \A k \in 1..Len(before) :
                    before[k].name # Normalize(l.path) =>
                        TextIn(sectors', before[k].sector) = TextIn(sectors, before[k].sector)]_vars

\* C17: a delete that fails because index.txt cannot be opened for writing
\* leaves the entry of its path in the index and no text in that entry's
\* sector; a delete that succeeds has left no text in the sector of the entry
\* it removed.
C17_DeleteTruncatesFirst ==
    [][\E l \in { lastOp' }, before \in { Entries } :
        (l.op = "delete" /\ l.existed) =>
            /\ \E sector \in { SectorOf(before, Normalize(l.path)) } :
                  sector \in DOMAIN sectors' => sectors'[sector] = <<>>
            /\ l.result = "CANNOT_OPEN_FILE" => indexFile' = indexFile
            /\ l.result = "ok" => Entries' = EntriesWithout(before, Normalize(l.path))]_vars

\* C18: every sector file that no entry of the index refers to is empty.
C18_FreeSectorsEmpty ==
    \A n \in DOMAIN sectors : n \notin SlotsOf(Entries) => sectors[n] = <<>>

\* C20: initVFS run on an index.txt that is already there changes no entry
\* and no sector, and does not raise VFS_INIT_FAILED.
C20_InitKeepsTheIndex ==
    [][(lastOp'.op = "initVFS" /\ lastOp'.existed) =>
          /\ UNCHANGED <<indexFile, sectors>>
          /\ lastOp'.result = "ok"]_vars

\* C19: the records written for normalised paths (separators embedded,
\* repeated or trailing, and "/" itself) and decimal slots are read back as the
\* same (name, sector) pairs in the same order, also after the index has been
\* rewritten.
C19_RecordRoundTrip ==
    lastOp.op \in { "record", "rewrite" } => Entries = lastOp.list

\* a record for "/a/" in slot 10 has been stored and has come through a rewrite
C19_Witness ==
    /\ lastOp.op = "rewrite"
    /\ Len(Entries) = 1
    /\ Entries[1] = [name |-> << "/", "a", "/" >>, sector |-> << "1", "0" >>]

====
